---- MODULE Spec2Model ----
(***************************************************************************)
(* Model of src/app.py: the Flask endpoint POST /analyze_frame, which      *)
(* decodes a data-URL image, calls the Gemini model and relays its JSON.   *)
(*                                                                         *)
(* Strings are sequences of one-character tokens.  A request body, the     *)
(* model's reply and the HTTP response are records of a fixed shape.       *)
(***************************************************************************)
EXTENDS Integers, Sequences, FiniteSets, TLC

\* ------------------------------------------------------------- bounds
NumReq == 2
MaxImgLen == 5
MaxCmdLen == 3
MaxTextLen == 5

Req == 1..NumReq

\* All sequences over S of length at most n.
RECURSIVE SeqsUpTo(_, _)
SeqsUpTo(S, n) ==
  IF n = 0 THEN {<<>>}
  ELSE LET P == SeqsUpTo(S, n - 1)
       IN  P \cup {Append(p, x) : p \in P, x \in S}

\* ------------------------------------------------------- str.strip()
\* Characters str.strip() removes (here: the space and the tab).
Whitespace == {" ", "\t"}

RECURSIVE LStrip(_)
LStrip(s) ==
  IF s # <<>> /\ Head(s) \in Whitespace THEN LStrip(Tail(s)) ELSE s

RECURSIVE RStrip(_)
RStrip(s) ==
  IF s # <<>> /\ s[Len(s)] \in Whitespace
  THEN RStrip(SubSeq(s, 1, Len(s) - 1))
  ELSE s

\* A mutant of Strip: only the leading whitespace is removed.
StripLeftOnly(s) == LStrip(s)

\* line 44: .strip()
Strip(s) == RStrip(LStrip(s))

\* ------------------------------------------- str.split(',', 1), base64
\* The characters of an image string: "," the separator, "A" a character of
\* the base64 alphabet, "=" the pad, "!" an ASCII character outside the
\* alphabet, "u" a non-ASCII character.
B64Alphabet == {"A"}
B64Pad == "="
NonAscii == {"u"}

\* Index of the first comma of s, 0 when there is none.
RECURSIVE FirstComma(_, _)
FirstComma(s, i) ==
  IF i > Len(s) THEN 0
  ELSE IF s[i] = "," THEN i
  ELSE FirstComma(s, i + 1)

HasComma(s) == FirstComma(s, 1) # 0

\* line 53: the second part of image_data_url.split(',', 1)
Encoded(s) == SubSeq(s, FirstComma(s, 1) + 1, Len(s))

\* binascii.a2b_base64 in its default, non-strict mode, as base64.b64decode
\* calls it: q is the position in the current quad, p the pads seen in a
\* row, n the bytes produced.  Characters outside the alphabet are skipped;
\* a complete pad sequence ends the decoding; an incomplete last quad is an
\* error.  The result is [ok, n].
RECURSIVE A2B(_, _, _, _, _)
A2B(s, i, q, p, n) ==
  IF i > Len(s) THEN [ok |-> q = 0, n |-> n]
  ELSE IF s[i] = B64Pad
       THEN IF q >= 2
            THEN IF q + p + 1 >= 4 THEN [ok |-> TRUE, n |-> n]
                 ELSE A2B(s, i + 1, q, p + 1, n)
            ELSE A2B(s, i + 1, q, p, n)
  ELSE IF s[i] \notin B64Alphabet THEN A2B(s, i + 1, q, p, n)
  ELSE IF q = 0 THEN A2B(s, i + 1, 1, 0, n)
  ELSE A2B(s, i + 1, (q + 1) % 4, 0, n + 1)

\* line 54: base64.b64decode(encoded).  A str argument is first encoded as
\* ASCII, which fails on a non-ASCII character.
B64Decode(e) ==
  IF \E i \in 1..Len(e) : e[i] \in NonAscii
  THEN [ok |-> FALSE, n |-> 0]
  ELSE LET d == A2B(e, 1, 0, 0, 0)
       IN  IF d.ok THEN d ELSE [ok |-> FALSE, n |-> 0]

\* ---------------------------------------------------------- json.loads
\* The characters of a model text: the brackets, the comma, the numbers "1"
\* (a coordinate inside [0,1]) and "7" (one outside it), the space; any
\* other character ("x") belongs to no JSON value.
JsonNumbers == {"1", "7"}
JsonWs == {" "}

NullVal == [k |-> "null", n |-> 0, items |-> <<>>]
NumVal(c) == [k |-> "num", n |-> IF c = "1" THEN 1 ELSE 7, items |-> <<>>]
ArrVal(xs) == [k |-> "arr", n |-> 0, items |-> xs]
ParseFail == [ok |-> FALSE, val |-> NullVal, next |-> 0]

\* The first index at or after i that holds no whitespace.
RECURSIVE SkipWs(_, _)
SkipWs(t, i) ==
  IF i <= Len(t) /\ t[i] \in JsonWs THEN SkipWs(t, i + 1) ELSE i

\* json.scanner: one value starting at index i; [ok, val, next].
RECURSIVE ParseValue(_, _)
RECURSIVE ParseItems(_, _, _)
ParseValue(t, i) ==
  IF i > Len(t) THEN ParseFail
  ELSE IF t[i] \in JsonNumbers
       THEN [ok |-> TRUE, val |-> NumVal(t[i]), next |-> i + 1]
  ELSE IF t[i] = "["
       THEN LET j == SkipWs(t, i + 1)
            IN  IF j <= Len(t) /\ t[j] = "]"
                THEN [ok |-> TRUE, val |-> ArrVal(<<>>), next |-> j + 1]
                ELSE ParseItems(t, j, <<>>)
  ELSE ParseFail

\* json.decoder.JSONArray after the element v: the closing bracket, or a
\* comma and the next element; acc holds the elements before v.
ItemsAfter(t, v, acc) ==
  IF ~v.ok THEN ParseFail
  ELSE LET j == SkipWs(t, v.next)
       IN  IF j > Len(t) THEN ParseFail
           ELSE IF t[j] = "]"
                THEN [ok |-> TRUE, val |-> ArrVal(Append(acc, v.val)),
                      next |-> j + 1]
           ELSE IF t[j] # "," THEN ParseFail
           ELSE ParseItems(t, SkipWs(t, j + 1), Append(acc, v.val))

\* json.decoder.JSONArray: the elements of an array from index i on.  (The
\* element is bound by a quantifier so that it is parsed once.)
ParseItems(t, i, acc) ==
  CHOOSE out \in {ItemsAfter(t, v, acc) : v \in {ParseValue(t, i)}} : TRUE

\* line 95: json.loads(text): one value, whitespace around it, nothing else.
JsonLoads(t) ==
  LET v == ParseValue(t, SkipWs(t, 1))
  IN  IF v.ok /\ SkipWs(t, v.next) = Len(t) + 1
      THEN [ok |-> TRUE, val |-> v.val]
      ELSE [ok |-> FALSE, val |-> NullVal]

\* The compact JSON text of a parsed value (json.dumps without spaces).
RECURSIVE JsonDumps(_)
RECURSIVE DumpItems(_)
JsonDumps(v) ==
  IF v.k = "num" THEN <<IF v.n = 1 THEN "1" ELSE "7">>
  ELSE IF v.k = "arr" THEN <<"[">> \o DumpItems(v.items) \o <<"]">>
  ELSE <<"null">>

DumpItems(xs) ==
  IF xs = <<>> THEN <<>>
  ELSE IF Len(xs) = 1 THEN JsonDumps(xs[1])
  ELSE JsonDumps(xs[1]) \o <<",">> \o DumpItems(Tail(xs))

\* ------------------------------------------------------ request bodies
\* image: t is "absent" (no such key), "falsy" (null, 0, false, [], {}),
\* "truthy" (any other non-string value) or "str" with the characters s;
\* pix says whether the bytes the payload encodes are an image file PIL
\* can open.  command: t is "absent", "nonstr" or "str".
ImgAbsent == [t |-> "absent", s |-> <<>>, pix |-> FALSE]
ImgFalsy == [t |-> "falsy", s |-> <<>>, pix |-> FALSE]
ImgTruthy == [t |-> "truthy", s |-> <<>>, pix |-> FALSE]
ImgStr(s, pix) == [t |-> "str", s |-> s, pix |-> pix]
CmdAbsent == [t |-> "absent", s |-> <<>>]
CmdNonStr == [t |-> "nonstr", s |-> <<>>]
CmdStr(s) == [t |-> "str", s |-> s]

\* kind: "nomime" (no JSON content type), "badjson" (unparsable JSON),
\* "nonobj" (JSON that is no object: null, a list, a number, a string),
\* "obj" (a JSON object).
Obj(img, cmd) == [kind |-> "obj", image |-> img, command |-> cmd]
NonObj(kind) == [kind |-> kind, image |-> ImgAbsent, command |-> CmdAbsent]
NoBody == NonObj("none")

PngImage == ImgStr(<<",", "A", "A", "A", "A">>, TRUE)

\* The bodies of the concurrent specification: one of each shape.
SmallBodies ==
  {NonObj("nomime"), NonObj("badjson"), NonObj("nonobj")} \cup
  {Obj(ImgAbsent, CmdAbsent), Obj(ImgAbsent, CmdNonStr),
   Obj(ImgStr(<<>>, FALSE), CmdStr(<<"a">>)),
   Obj(ImgTruthy, CmdStr(<<"a">>)),
   Obj(ImgStr(<<"A", "A", "A", "A">>, TRUE), CmdStr(<<"a">>)),
   Obj(ImgStr(<<",", "A", "A", "A">>, TRUE), CmdStr(<<"a">>)),
   Obj(ImgStr(<<",", "!">>, FALSE), CmdStr(<<"a">>)),
   Obj(ImgStr(<<",", "u">>, FALSE), CmdStr(<<"a">>)),
   Obj(ImgStr(<<",", "A", "A", "A", "A">>, FALSE), CmdStr(<<"a">>)),
   Obj(PngImage, CmdNonStr),
   Obj(PngImage, CmdStr(<<" ", "a", " ">>)),
   Obj(PngImage, CmdAbsent)}

ImgTokens == {",", "A", "=", "!"}
CmdTokens == {" ", "\t", "a", "b"}

\* The bodies of the single-request specification: every image string up
\* to MaxImgLen, and every command up to MaxCmdLen.
AllBodies ==
  {NonObj("nomime"), NonObj("badjson"), NonObj("nonobj")} \cup
  {Obj(ImgStr(s, pix), CmdStr(<<"a">>)) :
     s \in SeqsUpTo(ImgTokens, MaxImgLen), pix \in BOOLEAN} \cup
  {Obj(img, cmd) :
     img \in {ImgAbsent, ImgFalsy, ImgTruthy, ImgStr(<<>>, FALSE), PngImage},
     cmd \in {CmdAbsent, CmdNonStr} \cup
             {CmdStr(s) : s \in SeqsUpTo(CmdTokens, MaxCmdLen)}}

\* ------------------------------------------------- the model's replies
\* t: "apierror" (generate_content raised APIError), "exception" (it raised
\* anything else), "notext" (it returned a response whose text is None),
\* "text" (it returned the text s).
Reply(t, s) == [t |-> t, s |-> s]
NoReply == Reply("none", <<>>)

SmallReplies ==
  {Reply("apierror", <<>>), Reply("exception", <<>>), Reply("notext", <<>>),
   Reply("text", <<"x">>),
   Reply("text", <<"[", "[", "7", ",", "1", "]", "]">>)}

TextTokens == {"[", "]", ",", "1", "7", " "}

AllReplies ==
  {Reply("apierror", <<>>), Reply("exception", <<>>), Reply("notext", <<>>),
   Reply("text", <<"x">>)} \cup
  {Reply("text", s) : s \in SeqsUpTo(TextTokens, MaxTextLen)}

\* ----------------------------------------------------------- responses
\* form "json" is a jsonify body; form "html" is the error page Flask
\* makes of an exception that left the handler.  error is the fixed part
\* of the message, detail the text of the exception put after it.
NoResp ==
  [status |-> 0, form |-> "none", success |-> FALSE, error |-> "",
   detail |-> <<>>, detections |-> NullVal, command |-> <<>>]

ErrorResponse(status, error, detail) ==
  [status |-> status, form |-> "json", success |-> FALSE, error |-> error,
   detail |-> detail, detections |-> NullVal, command |-> <<>>]

Escaped(status, exc) ==
  [status |-> status, form |-> "html", success |-> FALSE, error |-> "",
   detail |-> <<exc>>, detections |-> NullVal, command |-> <<>>]

\* line 39
ClientUninitResponse ==
  ErrorResponse(500, "Gemini API client is not initialized. Check API Key.",
                <<>>)

\* line 48
MissingImageResponse == ErrorResponse(400, "No image data received", <<>>)

\* line 56
DecodeErrorResponse(exc) ==
  ErrorResponse(500, "Base64 decoding error: ", <<exc>>)

\* line 64
ImageErrorResponse ==
  ErrorResponse(500, "Image processing error: ", <<"UnidentifiedImageError">>)

\* line 102
ApiErrorResponse == ErrorResponse(500, "Gemini API Error: ", <<"APIError">>)

\* A mutant of JsonErrorResponse: the raw model text is put in the body.
JsonErrorResponseEcho(text) ==
  ErrorResponse(500,
    "Gemini did not return valid JSON or format was incorrect.", text)

\* line 106
JsonErrorResponse(text) ==
  ErrorResponse(500,
    "Gemini did not return valid JSON or format was incorrect.", <<>>)

\* line 108
UnexpectedResponse(exc) ==
  ErrorResponse(500, "An unexpected error occurred: ", <<exc>>)

\* A mutant of SuccessResponse: the detections are re-sorted (reversed).
RECURSIVE Reverse(_)
Reverse(xs) ==
  IF xs = <<>> THEN <<>> ELSE Append(Reverse(Tail(xs)), Head(xs))

SuccessResponseResorted(val, cmd) ==
  [status |-> 200, form |-> "json", success |-> TRUE, error |-> "",
   detail |-> <<>>,
   detections |-> [val EXCEPT !.items = Reverse(val.items)],
   command |-> cmd]

\* line 97
SuccessResponse(val, cmd) ==
  [status |-> 200, form |-> "json", success |-> TRUE, error |-> "",
   detail |-> <<>>, detections |-> val, command |-> cmd]

\* ---------------------------------------------------------------- state
VARIABLES
  client,       \* the module-level client: "unset", "ok" or "none"
  inits,        \* how many times genai.Client() was called
  pc,           \* pc[r]: the line request r is at
  body,         \* body[r]: the request's body
  command,      \* command[r]: the handler's local command
  image_bytes,  \* image_bytes[r]: [n, pix] of the decoded bytes
  calls,        \* calls[r]: how many times r called generate_content
  reply,        \* reply[r]: what generate_content gave r
  printed,      \* printed[r]: what the handler printed for r
  resp          \* resp[r]: the HTTP response

vars ==
  <<client, inits, pc, body, command, image_bytes, calls, reply, printed, resp>>

NoBytes == [n |-> 0, pix |-> FALSE]

Init ==
  /\ client = "unset"
  /\ inits = 0
  /\ pc = [r \in Req |-> "idle"]
  /\ body = [r \in Req |-> NoBody]
  /\ command = [r \in Req |-> <<>>]
  /\ image_bytes = [r \in Req |-> NoBytes]
  /\ calls = [r \in Req |-> 0]
  /\ reply = [r \in Req |-> NoReply]
  /\ printed = [r \in Req |-> <<>>]
  /\ resp = [r \in Req |-> NoResp]

\* The handler returns: the response is set and the request is done.
Return(r, response) ==
  /\ resp' = [resp EXCEPT ![r] = response]
  /\ pc' = [pc EXCEPT ![r] = "done"]

Goto(r, line) ==
  /\ pc' = [pc EXCEPT ![r] = line]
  /\ UNCHANGED resp

\* lines 18-22: the module is loaded; genai.Client() succeeds or raises.
Startup ==
  /\ client = "unset"
  /\ \E outcome \in {"ok", "none"} : client' = outcome
  /\ inits' = inits + 1
  /\ UNCHANGED <<pc, body, command, image_bytes, calls, reply, printed, resp>>

\* Flask calls analyze_frame for a POST; the app serves only once loaded.
Arrive(r, bodies) ==
  /\ client # "unset"
  /\ pc[r] = "idle"
  /\ \E b \in bodies : body' = [body EXCEPT ![r] = b]
  /\ pc' = [pc EXCEPT ![r] = "l38"]
  /\ UNCHANGED <<client, inits, command, image_bytes, calls, reply, printed,
                 resp>>

\* A mutant of CheckClient: a missing client is created again on the request.
CheckClientRetry(r) ==
  /\ pc[r] = "l38"
  /\ IF client = "none"
     THEN /\ \E outcome \in {"ok", "none"} : client' = outcome
          /\ inits' = inits + 1
     ELSE UNCHANGED <<client, inits>>
  /\ Goto(r, "l42")
  /\ UNCHANGED <<body, command, image_bytes, calls, reply, printed>>

\* lines 38-39: if client is None: return 500
CheckClient(r) ==
  /\ pc[r] = "l38"
  /\ IF client = "none"
     THEN Return(r, ClientUninitResponse)
     ELSE Goto(r, "l42")
  /\ UNCHANGED <<client, inits, body, command, image_bytes, calls, reply,
                 printed>>

\* lines 42-44, outside every try: request.json raises UnsupportedMediaType
\* (415) or BadRequest (400) on a body it cannot read; data.get raises
\* AttributeError when data is no dict; .strip() raises AttributeError when
\* the command is no string.  Each leaves the handler, and Flask answers
\* with its own error page.  (A Flask older than 2.1 gives None for a body
\* without a JSON content type, and data.get then raises as for "nonobj":
\* the page is a 500 instead of a 415, and as little a JSON body.)
GetData(r) ==
  /\ pc[r] = "l42"
  /\ LET b == body[r]
     IN  IF b.kind = "nomime"
         THEN Return(r, Escaped(415, "UnsupportedMediaType")) /\ UNCHANGED command
         ELSE IF b.kind = "badjson"
         THEN Return(r, Escaped(400, "BadRequest")) /\ UNCHANGED command
         ELSE IF b.kind = "nonobj" \/ b.command.t = "nonstr"
         THEN Return(r, Escaped(500, "AttributeError")) /\ UNCHANGED command
         ELSE /\ command' = [command EXCEPT ![r] = Strip(b.command.s)]
              /\ Goto(r, "l47")
  /\ UNCHANGED <<client, inits, body, image_bytes, calls, reply, printed>>

\* line 47: not image_data_url
ImageMissing(img) ==
  img.t \in {"absent", "falsy"} \/ (img.t = "str" /\ img.s = <<>>)

\* lines 47-48
CheckImage(r) ==
  /\ pc[r] = "l47"
  /\ IF ImageMissing(body[r].image)
     THEN Return(r, MissingImageResponse)
     ELSE Goto(r, "l51")
  /\ UNCHANGED <<client, inits, body, command, image_bytes, calls, reply,
                 printed>>

\* lines 53-54: what the try block ends with: [ok, exc, n].  A value that
\* is no string has no split (AttributeError); a string without a comma
\* does not unpack into two names (ValueError); a non-ASCII payload is a
\* ValueError, any other decoding failure a binascii.Error.
DecodeImage(img) ==
  IF img.t # "str" THEN [ok |-> FALSE, exc |-> "AttributeError", n |-> 0]
  ELSE IF ~HasComma(img.s) THEN [ok |-> FALSE, exc |-> "ValueError", n |-> 0]
  ELSE LET e == Encoded(img.s)
           d == B64Decode(e)
       IN  IF d.ok THEN [ok |-> TRUE, exc |-> "", n |-> d.n]
           ELSE IF \E i \in 1..Len(e) : e[i] \in NonAscii
                THEN [ok |-> FALSE, exc |-> "ValueError", n |-> 0]
                ELSE [ok |-> FALSE, exc |-> "binascii.Error", n |-> 0]

\* lines 51-56
Decode(r) ==
  /\ pc[r] = "l51"
  /\ LET d == DecodeImage(body[r].image)
     IN  IF d.ok
         THEN /\ image_bytes' =
                   [image_bytes EXCEPT ![r] = [n |-> d.n, pix |-> body[r].image.pix]]
              /\ Goto(r, "l59")
         ELSE /\ Return(r, DecodeErrorResponse(d.exc))
              /\ UNCHANGED image_bytes
  /\ UNCHANGED <<client, inits, body, command, calls, reply, printed>>

\* line 61: Image.open(image_bytes).convert("RGB") succeeds on the bytes of
\* an image file; no bytes at all are none.
ImageOpens(bytes) == bytes.n > 0 /\ bytes.pix

\* lines 59-64
Materialize(r) ==
  /\ pc[r] = "l59"
  /\ IF ImageOpens(image_bytes[r])
     THEN Goto(r, "l87")
     ELSE Return(r, ImageErrorResponse)
  /\ UNCHANGED <<client, inits, body, command, image_bytes, calls, reply,
                 printed>>

\* lines 87-93: the call of client.models.generate_content is made; the
\* module-level client is read again (None has no attribute models, which
\* the last except clause catches).
CallModel(r) ==
  /\ pc[r] = "l87"
  /\ IF client = "ok"
     THEN /\ calls' = [calls EXCEPT ![r] = @ + 1]
          /\ Goto(r, "inModel")
     ELSE /\ Return(r, UnexpectedResponse("AttributeError"))
          /\ UNCHANGED calls
  /\ UNCHANGED <<client, inits, body, command, image_bytes, reply, printed>>

\* The external model's call ends: it raises, or returns a response.
ModelReturn(r, replies) ==
  /\ pc[r] = "inModel"
  /\ \E m \in replies : reply' = [reply EXCEPT ![r] = m]
  /\ Goto(r, "l95")
  /\ UNCHANGED <<client, inits, body, command, image_bytes, calls, printed>>

\* A mutant of CommandOf: the command is kept in one place for all requests,
\* so a request answers with what another one stored.
CommandOfShared(r) == command[CHOOSE q \in Req : q # r]

\* line 97: "command": command, the handler's local
CommandOf(r) == command[r]

\* What the code after the model call ends with: the line it goes to, the
\* response it returns and what it prints.
Outcome(response, lines) ==
  [goto |-> "done", resp |-> response, print |-> lines]

\* A mutant of AfterApiError: the call is made again after an APIError.
AfterApiErrorRetry(cmd) ==
  [goto |-> "l87", resp |-> NoResp,
   print |-> <<[what |-> "prompt", s |-> cmd]>>]

\* lines 99-102: except APIError: the start of the prompt, which holds the
\* command, is printed
AfterApiError(cmd) ==
  Outcome(ApiErrorResponse, <<[what |-> "prompt", s |-> cmd]>>)

\* lines 95-108: the rest of the try block and its except clauses, for the
\* reply m and the local command cmd.
AfterModelCall(m, cmd) ==
  IF m.t = "apierror" THEN AfterApiError(cmd)
  ELSE IF m.t = "exception"
       THEN Outcome(UnexpectedResponse("Exception"), <<>>)
  ELSE IF m.t = "notext"
       THEN Outcome(UnexpectedResponse("TypeError"), <<>>)
  ELSE LET j == JsonLoads(m.s)
       IN  IF j.ok
           THEN Outcome(SuccessResponse(j.val, cmd), <<>>)
           ELSE Outcome(JsonErrorResponse(m.s),
                        <<[what |-> "error", s |-> <<"JSONDecodeError">>],
                          [what |-> "raw", s |-> m.s]>>)

\* lines 95-108
ParseReply(r) ==
  /\ pc[r] = "l95"
  /\ LET o == AfterModelCall(reply[r], CommandOf(r))
     IN  /\ pc' = [pc EXCEPT ![r] = o.goto]
         /\ resp' = [resp EXCEPT ![r] = o.resp]
         /\ printed' = [printed EXCEPT ![r] = @ \o o.print]
  /\ UNCHANGED <<client, inits, body, command, image_bytes, calls, reply>>

\* One step of the handler for request r.
Step(r) ==
  \/ CheckClient(r)
  \/ GetData(r)
  \/ CheckImage(r)
  \/ Decode(r)
  \/ Materialize(r)
  \/ CallModel(r)
  \/ ParseReply(r)

\* ------------------------------------------------------ specifications
\* Requests handled concurrently (app.run(threaded=True)), one of each
\* shape of body and reply.
Next ==
  \/ Startup
  \/ \E r \in Req : Arrive(r, SmallBodies)
  \/ \E r \in Req : Step(r)
  \/ \E r \in Req : ModelReturn(r, SmallReplies)

Spec == Init /\ [][Next]_vars

\* Bodies that end the handler at each of its stages, and replies that end
\* it in each way: the requests of the specification with fairness.
StageBodies ==
  {Obj(ImgAbsent, CmdAbsent),
   Obj(ImgStr(<<"A", "A", "A", "A">>, TRUE), CmdStr(<<"a">>)),
   Obj(ImgStr(<<",", "A", "A", "A", "A">>, FALSE), CmdStr(<<"a">>)),
   Obj(PngImage, CmdStr(<<"a">>))}

StageReplies ==
  {Reply("apierror", <<>>), Reply("text", <<"x">>),
   Reply("text", <<"[", "7", "]">>)}

NextStages ==
  \/ Startup
  \/ \E r \in Req : Arrive(r, StageBodies)
  \/ \E r \in Req : Step(r)
  \/ \E r \in Req : ModelReturn(r, StageReplies)

\* Concurrent requests where each handler's thread runs on (the server gives
\* every request its own thread), and every model call returns.
FairSpec ==
  /\ Init /\ [][NextStages]_vars
  /\ \A r \in Req : WF_vars(Step(r)) /\ WF_vars(ModelReturn(r, StageReplies))

\* One request, over every body within the bounds.
NextBody ==
  \/ Startup
  \/ Arrive(1, AllBodies)
  \/ Step(1)
  \/ ModelReturn(1, SmallReplies)

SpecBody == Init /\ [][NextBody]_vars

\* One request, over every reply of the model within the bounds.
NextReply ==
  \/ Startup
  \/ Arrive(1, SmallBodies)
  \/ Step(1)
  \/ ModelReturn(1, AllReplies)

SpecReply == Init /\ [][NextReply]_vars

\* ---------------------------------------------------------------- claims
Done(r) == pc[r] = "done"

\* The request's body is a JSON object that names the image s as a string.
ImageAbsentOrEmpty(img) ==
  img.t = "absent" \/ (img.t = "str" /\ img.s = <<>>)

\* C1 (as claimed): with the client initialized, a request whose image is
\* absent or empty is answered with exactly {error: "No image data
\* received"} and status 400, whatever its command is.
C1_MissingImageIs400 ==
  \A r \in Req :
    (/\ Done(r)
     /\ client = "ok"
     /\ body[r].kind = "obj"
     /\ ImageAbsentOrEmpty(body[r].image))
    => /\ resp[r].status = 400
       /\ resp[r].form = "json"
       /\ resp[r].error = "No image data received"
       /\ resp[r].detail = <<>>

UninitMessage == "Gemini API client is not initialized. Check API Key."

\* C2: once initialization has failed, the client stays None and is never
\* created again; every request, whatever its body, is answered 500 with the
\* client-not-initialized error before anything else of the handler runs,
\* and the model is never called.
C2_UninitializedStaysUnavailable ==
  /\ [](client = "none" =>
          /\ inits = 1
          /\ \A r \in Req :
               /\ pc[r] \in {"idle", "l38", "done"}
               /\ calls[r] = 0
               /\ Done(r) => /\ resp[r].status = 500
                             /\ resp[r].form = "json"
                             /\ resp[r].error = UninitMessage)
  /\ [][client = "none" => client' = "none" /\ inits' = inits]_vars

C2_Witness ==
  /\ client = "none"
  /\ \E r \in Req : Done(r) /\ body[r].kind = "nomime" /\ resp[r].status = 500
  /\ \E r \in Req : Done(r) /\ body[r].kind = "obj" /\ resp[r].status = 500

\* C3 (as claimed): the command of a success response is the request's
\* command, character for character.
C3_EchoVerbatim ==
  \A r \in Req :
    (Done(r) /\ resp[r].status = 200) => resp[r].command = body[r].command.s

\* c is s without its leading and trailing whitespace.
IsStripped(c, s) ==
  /\ c = <<>> \/ (c[1] \notin Whitespace /\ c[Len(c)] \notin Whitespace)
  /\ \E i \in 0..Len(s) :
       /\ i + Len(c) <= Len(s)
       /\ SubSeq(s, i + 1, i + Len(c)) = c
       /\ \A k \in 1..Len(s) : (k <= i \/ k > i + Len(c)) => s[k] \in Whitespace

\* C3 (amended): the command of a success response is the request's
\* command without its leading and trailing whitespace (the empty string
\* when the request has no command).
C3_EchoStripped ==
  \A r \in Req :
    (Done(r) /\ resp[r].status = 200) =>
      /\ body[r].command.t \in {"absent", "str"}
      /\ IsStripped(resp[r].command, body[r].command.s)

C3_Witness ==
  \E r \in Req :
    /\ Done(r)
    /\ resp[r].status = 200
    /\ body[r].command.s = <<" ", "a", "\t">>
    /\ resp[r].command = <<"a">>

\* C4 (as claimed): every request ends in a JSON response: the success
\* body, or {error: string} with status 400 or 500.
C4_EveryFailureIsJsonError ==
  \A r \in Req :
    Done(r) =>
      /\ resp[r].form = "json"
      /\ \/ resp[r].status = 200 /\ resp[r].success
         \/ resp[r].status \in {400, 500} /\ resp[r].error # ""

JsonErrorMessage == "Gemini did not return valid JSON or format was incorrect."

\* C5: when the model's text is no JSON, the response is 500 with the one
\* fixed message and nothing of the text: the same body for every such
\* text; the text goes to the log only.
C5_NonJsonGivesFixedBody ==
  \A r \in Req :
    (Done(r) /\ reply[r].t = "text" /\ ~JsonLoads(reply[r].s).ok) =>
      /\ resp[r] = [NoResp EXCEPT !.status = 500, !.form = "json",
                                  !.error = JsonErrorMessage]
      /\ \E i \in 1..Len(printed[r]) :
           printed[r][i] = [what |-> "raw", s |-> reply[r].s]

C5_Witness ==
  \E r \in Req :
    /\ Done(r)
    /\ reply[r] = Reply("text", <<"[", "1", ",", "]">>)
    /\ resp[r].status = 500

\* The text t without its whitespace.
NoWs(t) == SelectSeq(t, LAMBDA c : c \notin JsonWs)

\* C6: when the model's text is JSON, the response is 200 with success true
\* and detections the value the text denotes: written back as JSON it is
\* the model's text, whitespace aside, element for element and in order.
C6_DetectionsRoundTrip ==
  \A r \in Req :
    (Done(r) /\ reply[r].t = "text" /\ JsonLoads(reply[r].s).ok) =>
      /\ resp[r].status = 200
      /\ resp[r].form = "json"
      /\ resp[r].success
      /\ JsonDumps(resp[r].detections) = NoWs(reply[r].s)

C6_Witness ==
  \E r \in Req :
    /\ Done(r)
    /\ reply[r] = Reply("text", <<"[", "7", ",", "1", "]">>)
    /\ resp[r].status = 200
    /\ resp[r].detections.items = <<NumVal("7"), NumVal("1")>>

\* The state of the request's state machine: 0 none yet, 1 Received,
\* 2 Decoded, 3 Materialized, 4 ModelCalled, 5 Responded, 6 Failed.
PhaseOf(line, response) ==
  CASE line = "idle" -> 0
    [] line \in {"l38", "l42", "l47", "l51"} -> 1
    [] line = "l59" -> 2
    [] line = "l87" -> 3
    [] line \in {"inModel", "l95"} -> 4
    [] line = "done" /\ response.status = 200 -> 5
    [] OTHER -> 6

\* C7: a request goes through Received, Decoded, Materialized, ModelCalled,
\* Responded in that order, one state at a time, or from any of them to
\* Failed; Responded and Failed are final; the model is called at most once;
\* and every request received reaches a final state, the model call returning.
C7_LinearStateMachine ==
  /\ [][\A r \in Req :
          LET p == PhaseOf(pc[r], resp[r])
              q == PhaseOf(pc'[r], resp'[r])
          IN  /\ q = p \/ (p <= 4 /\ q = p + 1) \/ (p \in 1..4 /\ q = 6)
              /\ p >= 5 => resp'[r] = resp[r]
              /\ calls'[r] = calls[r] \/ (p = 3 /\ q = 4 /\ calls'[r] = calls[r] + 1)]_vars
  /\ [](\A r \in Req : calls[r] <= 1)
  /\ \A r \in Req : (pc[r] = "l38") ~> Done(r)

C7_Witness ==
  \E r \in Req :
    /\ Done(r) /\ resp[r].status = 200 /\ calls[r] = 1
    /\ \E q \in Req : Done(q) /\ resp[q].status = 500 /\ calls[q] = 1

\* e is base64: characters of the alphabet in groups of four, the last
\* group ending in at most two pads.
WellFormedB64(e) ==
  LET k == Len(SelectSeq(e, LAMBDA c : c = B64Pad))
  IN  /\ \A i \in 1..Len(e) : e[i] \in B64Alphabet \cup {B64Pad}
      /\ \A i \in 1..(Len(e) - k) : e[i] # B64Pad
      /\ Len(e) % 4 = 0
      /\ k <= 2

\* C8 (as claimed): with the client initialized, a request whose data URL
\* has no comma, or whose payload is not base64, is answered 500 with the
\* decode-error message, and the model is not called.
C8_MalformedIsDecodeError ==
  \A r \in Req :
    (/\ Done(r)
     /\ client = "ok"
     /\ body[r].kind = "obj"
     /\ body[r].command.t # "nonstr"
     /\ body[r].image.t = "str"
     /\ body[r].image.s # <<>>
     /\ \/ ~HasComma(body[r].image.s)
        \/ ~WellFormedB64(Encoded(body[r].image.s)))
    => /\ resp[r].status = 500
       /\ resp[r].error = "Base64 decoding error: "
       /\ calls[r] = 0

FirstFailure(r) ==
  IF client = "none" THEN UninitMessage
  ELSE IF ImageMissing(body[r].image) THEN "No image data received"
  ELSE IF ~DecodeImage(body[r].image).ok THEN "Base64 decoding error: "
  ELSE IF ~ImageOpens([n |-> DecodeImage(body[r].image).n,
                       pix |-> body[r].image.pix])
       THEN "Image processing error: "
  ELSE IF reply[r].t = "apierror" THEN "Gemini API Error: "
  ELSE IF reply[r].t \in {"exception", "notext"}
       THEN "An unexpected error occurred: "
  ELSE IF ~JsonLoads(reply[r].s).ok THEN JsonErrorMessage
  ELSE ""

\* C10 (as claimed): for a request with a JSON object as its body, the
\* response is the one of the first check that fails (the success response
\* when none does), and the model is called only when the four checks
\* before it passed.
C10_FirstFailingCheckDecides ==
  \A r \in Req :
    (Done(r) /\ body[r].kind = "obj") =>
      /\ resp[r].form = "json"
      /\ resp[r].error = FirstFailure(r)
      /\ calls[r] = IF reply[r] = NoReply THEN 0 ELSE 1
====
